---------------------------- MODULE Spec2Model ----------------------------
(***************************************************************************)
(* Model of the cdk_sc_s3_static_site repository.                          *)
(*                                                                         *)
(*   - S3StaticSiteProduct: two pattern-constrained parameters, a key, a   *)
(*     private bucket, an origin access control, a distribution, a bucket  *)
(*     policy statement, a key policy statement, three Sponsor tags and    *)
(*     one output.                                                         *)
(*   - CdkScS3StaticSite: the catalog wrapper (tag options, portfolio,     *)
(*     product with one version, two associations).                        *)
(*   - CdkScLevel2WorkshopStack: a queue, a topic and one subscription.    *)
(*                                                                         *)
(* Strings that are matched against a pattern are sequences of one-        *)
(* character strings.  The allowed_pattern of a CfnParameter is applied by *)
(* the provisioning service to the WHOLE parameter value, so both patterns *)
(* are modelled as full matches.                                           *)
(***************************************************************************)
EXTENDS Integers, Sequences, FiniteSets, TLC

VARIABLES
    param,          \* the parameter value under validation (sequence of characters)
    verdict,        \* "pending" | "accepted" | "rejected"
    stacks,         \* product instance -> its provisioned state
    nextId,         \* resource type -> next identifier the provider generates
    pc,             \* position in a stack constructor
    catalog,        \* constructs of the catalog wrapper stack
    messaging       \* constructs of the messaging stack and its message traffic

vars == <<param, verdict, stacks, nextId, pc, catalog, messaging>>

-----------------------------------------------------------------------------
(* Characters *)

LowerLetters ==
    {"a","b","c","d","e","f","g","h","i","j","k","l","m",
     "n","o","p","q","r","s","t","u","v","w","x","y","z"}

UpperLetters ==
    {"A","B","C","D","E","F","G","H","I","J","K","L","M",
     "N","O","P","Q","R","S","T","U","V","W","X","Y","Z"}

Digits == {"0","1","2","3","4","5","6","7","8","9"}

NewLine == "\n"

\* [a-z0-9]
ClassLowerAlnum(c) == c \in LowerLetters \cup Digits

\* [a-z0-9-]
ClassLowerAlnumHyphen(c) == c \in LowerLetters \cup Digits \cup {"-"}

\* [a-zA-Z]
ClassLetter(c) == c \in LowerLetters \cup UpperLetters

\* .  (any character but a line terminator)
ClassDot(c) == c # NewLine

\* s[from..to] is a run of characters of the class
AllLowerAlnumHyphen(s, from, to) == \A i \in from..to : ClassLowerAlnumHyphen(s[i])
AllLetters(s, from, to) == \A i \in from..to : ClassLetter(s[i])
AllDot(s, from, to) == \A i \in from..to : ClassDot(s[i])

\* the literal lit occurs in s at position at (1-based)
LiteralAt(s, at, lit) ==
    /\ at + Len(lit) - 1 <= Len(s)
    /\ \A i \in 1..Len(lit) : s[at + i - 1] = lit[i]

-----------------------------------------------------------------------------
(* bucketNameParameter:                                                    *)
(*   (?!(^xn--|.+-s3alias$))^[a-z0-9][a-z0-9-]{1,61}[a-z0-9]               *)

XnPrefix == <<"x","n","-","-">>
S3AliasSuffix == <<"-","s","3","a","l","i","a","s">>

\* the bounds of the counted repetition {1,61}
MiddleMin == 1
MiddleMax == 61

\* ^xn--
LookaheadXn(s) == LiteralAt(s, 1, XnPrefix)

\* .+-s3alias$   (tried at the start of the value)
LookaheadS3Alias(s) ==
    \E k \in 1..Len(s) :
        /\ AllDot(s, 1, k)
        /\ LiteralAt(s, k + 1, S3AliasSuffix)
        /\ k + Len(S3AliasSuffix) = Len(s)

\* ^[a-z0-9][a-z0-9-]{n}[a-z0-9] consumes exactly the first n + 2 characters
BucketBodyMatches(s, n) ==
    /\ n + 2 <= Len(s)
    /\ ClassLowerAlnum(s[1])
    /\ AllLowerAlnumHyphen(s, 2, n + 1)
    /\ ClassLowerAlnum(s[n + 2])

\* The pattern applied as a search for a matching prefix.
BucketNameAcceptedUnanchored(s) ==
    /\ ~ (LookaheadXn(s) \/ LookaheadS3Alias(s))
    /\ \E n \in MiddleMin..MiddleMax : BucketBodyMatches(s, n)

\* The pattern applied to the whole value.
BucketNameAccepted(s) ==
    /\ ~ (LookaheadXn(s) \/ LookaheadS3Alias(s))
    /\ \E n \in MiddleMin..MiddleMax : BucketBodyMatches(s, n) /\ n + 2 = Len(s)

-----------------------------------------------------------------------------
(* Sponsor:  [a-zA-Z]+(\.[a-zA-Z]+)?@modernatx\.com                        *)

SponsorDomain == <<"@","m","o","d","e","r","n","a","t","x",".","c","o","m">>

\* @modernatx.com with the dot left unescaped, to the end of the value
DomainToEndAnyDot(s, at) ==
    /\ at + Len(SponsorDomain) - 1 = Len(s)
    /\ \A i \in 1..Len(SponsorDomain) :
          IF SponsorDomain[i] = "." THEN ClassDot(s[at + i - 1])
                                    ELSE s[at + i - 1] = SponsorDomain[i]

\* @modernatx\.com from position at to the end of the value
DomainToEnd(s, at) ==
    /\ LiteralAt(s, at, SponsorDomain)
    /\ at + Len(SponsorDomain) - 1 = Len(s)

\* [a-zA-Z]+ up to i, then either the domain or \.[a-zA-Z]+ up to j and the domain
SponsorAccepted(s) ==
    \E i \in 1..Len(s) :
        /\ AllLetters(s, 1, i)
        /\ \/ DomainToEnd(s, i + 1)
           \/ \E j \in (i + 2)..Len(s) :
                 /\ s[i + 1] = "."
                 /\ AllLetters(s, i + 2, j)
                 /\ DomainToEnd(s, j + 1)

-----------------------------------------------------------------------------
(* Parameter values handed to the two validations *)

\* longest run of one repeated character inside a generated value
MaxFill == 64
\* longest local part enumerated exhaustively
MaxLocal == 4

RECURSIVE Repeat(_, _)
Repeat(c, n) == IF n = 0 THEN << >> ELSE <<c>> \o Repeat(c, n - 1)

RECURSIVE SeqsUpTo(_, _)
SeqsUpTo(S, n) ==
    IF n = 0 THEN { << >> }
    ELSE LET shorter == SeqsUpTo(S, n - 1)
         IN  shorter \cup { <<c>> \o s : c \in S, s \in shorter }

MySite1 == <<"m","y","-","s","i","t","e","-","1">>
XnAbc == <<"x","n","-","-","a","b","c">>
BucketS3Alias == <<"b","u","c","k","e","t","-","s","3","a","l","i","a","s">>
UpperAB == <<"A","B">>
TestStaticSite == <<"t","e","s","t","-","s","t","a","t","i","c","-","s","i","t","e">>

BucketNameHeads ==
    { << >>, XnPrefix, <<"x","n","-">>, <<"a">>, <<"-">>, <<"A">>, <<"0">> }

BucketNameTails ==
    { << >>, S3AliasSuffix, <<"s","3","a","l","i","a","s">>, <<"-">>, <<"z">>,
      <<"_">>, S3AliasSuffix \o <<"x">>, <<NewLine>> }

BucketNameFill == {"a", "-", "9", "B"}

BucketNameInputs ==
    { h \o Repeat(c, n) \o t :
        h \in BucketNameHeads, c \in BucketNameFill, n \in 0..MaxFill,
        t \in BucketNameTails }
    \cup SeqsUpTo({"a", "-", "A"}, 3)
    \cup { MySite1, XnAbc, BucketS3Alias, UpperAB, TestStaticSite }

AliceSmith == <<"a","l","i","c","e",".","s","m","i","t","h","@","m","o","d","e","r","n","a","t","x",".","c","o","m">>
OpsTeam == <<"o","p","s",".","t","e","a","m","@","m","o","d","e","r","n","a","t","x",".","c","o","m">>
AliceOther == <<"a","l","i","c","e","@","o","t","h","e","r",".","c","o","m">>

SponsorDomainInputs ==
    { SponsorDomain,
      <<"@","o","t","h","e","r",".","c","o","m">>,
      <<"@","m","o","d","e","r","n","a","t","x","Z","c","o","m">>,
      <<"@","m","o","d","e","r","n","a","t","x",".","c","o","m","m">>,
      <<"@","m","o","d","e","r","n","a","t","x",".","c","o">>,
      << >> }

SponsorInputs ==
    { l \o d : l \in SeqsUpTo({"a", "Z", ".", "1"}, MaxLocal), d \in SponsorDomainInputs }
    \cup { AliceSmith, OpsTeam, AliceOther }

-----------------------------------------------------------------------------
(* S3StaticSiteProduct: the resources the constructor declares.            *)
(* A reference to another resource (ref, bucket_name, attr_domain_name)    *)
(* resolves to the identifier the provider generated for that resource.    *)

\* number of instances of the product that are launched
MaxInstances == 2

Instances == 1..MaxInstances

\* Aws.ACCOUNT_ID: the account the instances are launched in
AccountId == "111111111111"

CloudFrontPrincipal == "cloudfront.amazonaws.com"

Absent == [exists |-> FALSE]

Unresolved == "unresolved"

\* the value a reference to resource r resolves to
Ref(r) == IF r.exists THEN r.id ELSE Unresolved

\* the Sponsor tag goes on these three constructs
TaggedResourcesWithoutDistribution == {"key", "bucket"}

TaggedResources == {"key", "bucket", "distribution"}

\* Tags.of(construct).add("Sponsor", sponsor.value_as_string)
TagsOf(construct, sponsor) ==
    IF construct \in TaggedResources
    THEN { [key |-> "Sponsor", value |-> sponsor] }
    ELSE { }

\* the statement added to the key's resource policy
KeyPolicyStatement ==
    [ sid        |-> "AllowCloudFrontServicePrincipalSSE-KMS",
      effect     |-> "Allow",
      actions    |-> {"kms:Decrypt", "kms:Encrypt", "kms:GenerateDataKey*"},
      principals |-> {CloudFrontPrincipal},
      resources  |-> {"*"},
      conditions |-> { } ]

\* kms.Key(removal_policy = DESTROY), with its policy statement and tag
KeyResource(id, sponsor) ==
    [ exists         |-> TRUE,
      id             |-> id,
      removal_policy |-> "DESTROY",
      policy         |-> {KeyPolicyStatement},
      tags           |-> TagsOf("key", sponsor) ]

\* s3.Bucket with public read access switched on
PublicBucketResource(bucketName, keyRef, sponsor) ==
    [ exists             |-> TRUE,
      id                 |-> bucketName,
      bucket_name        |-> bucketName,
      versioned          |-> TRUE,
      encryption         |-> "KMS",
      encryption_key     |-> keyRef,
      public_read_access |-> TRUE,
      removal_policy     |-> "DESTROY",
      tags               |-> TagsOf("bucket", sponsor) ]

\* s3.Bucket(...): the reference to a bucket is its name
BucketResource(bucketName, keyRef, sponsor) ==
    [ exists             |-> TRUE,
      id                 |-> bucketName,
      bucket_name        |-> bucketName,
      versioned          |-> TRUE,
      encryption         |-> "KMS",
      encryption_key     |-> keyRef,
      public_read_access |-> FALSE,
      removal_policy     |-> "DESTROY",
      tags               |-> TagsOf("bucket", sponsor) ]

\* cloudfront.CfnOriginAccessControl(...)
OriginAccessControlResource(id, bucketRef) ==
    [ exists |-> TRUE,
      id     |-> id,
      name                              |-> <<bucketRef, " OAC">>,
      origin_access_control_origin_type |-> "s3",
      signing_behavior                  |-> "always",
      signing_protocol                  |-> "sigv4" ]

\* a restriction that also lets one more location in
GeoRestrictionWithExtraLocation ==
    [ restriction_type |-> "whitelist",
      locations        |-> {"US", "JP", "CA", "IN", "DE"} ]

\* restrictions = RestrictionsProperty(geo_restriction = ...)
GeoRestriction ==
    [ restriction_type |-> "whitelist",
      locations        |-> {"US", "JP", "CA", "IN"} ]

\* cloudfront.CfnDistribution(distribution_config = ...)
DistributionResource(id, bucketRef, oacRef, sponsor) ==
    [ exists  |-> TRUE,
      id      |-> id,
      origins |-> { [ domain_name              |-> <<bucketRef, ".s3.amazonaws.com">>,
                      id                       |-> "myS3OriginId",
                      origin_access_control_id |-> oacRef ] },
      default_cache_behavior |->
          [ target_origin_id       |-> "myS3OriginId",
            viewer_protocol_policy |-> "redirect-to-https",
            allowed_methods        |-> {"GET", "HEAD"},
            cached_methods         |-> {"GET", "HEAD"},
            cache_policy_id        |-> "658327ea-f89d-4fab-a63d-7e88639e58f6",
            compress               |-> FALSE ],
      enabled             |-> TRUE,
      ipv6_enabled        |-> TRUE,
      default_root_object |-> "index.html",
      price_class         |-> "PriceClass_All",
      geo_restriction     |-> GeoRestriction,
      cloud_front_default_certificate |-> TRUE,
      domain_name         |-> <<id, ".cloudfront.net">>,
      tags                |-> TagsOf("distribution", sponsor) ]

\* my_bucket.bucket_arn and my_bucket.arn_for_objects(pattern)
BucketArn(bucketRef) == <<"arn:aws:s3:::", bucketRef>>
ArnForObjects(bucketRef, pattern) == <<"arn:aws:s3:::", bucketRef, "/", pattern>>

\* f"arn:aws:cloudfront::{Aws.ACCOUNT_ID}:distribution/{my_distribution.ref}"
DistributionArn(account, distributionRef) ==
    <<"arn:aws:cloudfront::", account, ":distribution/", distributionRef>>

\* the condition of a statement that names one fixed distribution
SourceArnConditionHardcoded(account, distributionRef) ==
    [ test  |-> "StringEquals",
      key   |-> "aws:SourceArn",
      value |-> DistributionArn(account, 1) ]

\* conditions = {"StringEquals": {"aws:SourceArn": <arn of my_distribution>}}
SourceArnCondition(account, distributionRef) ==
    [ test  |-> "StringEquals",
      key   |-> "aws:SourceArn",
      value |-> DistributionArn(account, distributionRef) ]

\* the statement added to the bucket's resource policy
BucketPolicyStatement(bucketRef, account, distributionRef) ==
    [ sid        |-> "AllowCloudFrontServicePrincipalReadOnly",
      effect     |-> "Allow",
      actions    |-> {"s3:GetObject"},
      principals |-> {CloudFrontPrincipal},
      resources  |-> {BucketArn(bucketRef), ArnForObjects(bucketRef, "*")},
      conditions |-> {SourceArnCondition(account, distributionRef)} ]

\* the bucket policy resource that add_to_resource_policy creates
BucketPolicyResource(bucketRef, account, distributionRef) ==
    [ exists     |-> TRUE,
      bucket     |-> bucketRef,
      statements |-> {BucketPolicyStatement(bucketRef, account, distributionRef)} ]

\* CfnOutput "DistributionDomainName"
DistributionDomainNameOutput(domainName) ==
    [ name  |-> "DistributionDomainName",
      value |-> <<"https://", domainName>> ]

-----------------------------------------------------------------------------
(* Launching instances of the product.  The provisioning service checks    *)
(* the parameter values against the declared patterns, then creates each   *)
(* declared resource once the resources it references exist.               *)

ResourceKinds == {"key", "bucket", "oac", "distribution", "bucketPolicy"}

\* the constructs each declaration reads an identifier or attribute of
ReferencesWithoutDistribution(r) ==
    CASE r = "key"          -> { }
      [] r = "bucket"       -> {"key"}
      [] r = "oac"          -> {"bucket"}
      [] r = "distribution" -> {"bucket", "oac"}
      [] r = "bucketPolicy" -> {"bucket"}

References(r) ==
    CASE r = "key"          -> { }                          \* nothing
      [] r = "bucket"       -> {"key"}                      \* encryption_key
      [] r = "oac"          -> {"bucket"}                   \* my_bucket.bucket_name
      [] r = "distribution" -> {"bucket", "oac"}            \* domain name, oac.ref
      [] r = "bucketPolicy" -> {"bucket", "distribution"}   \* arns, my_distribution.ref

\* only the bucket name is constrained
ParametersValidBucketNameOnly(bucketName, sponsor) ==
    BucketNameAccepted(bucketName)

\* both parameters declare an allowed_pattern
ParametersValid(bucketName, sponsor) ==
    /\ BucketNameAccepted(bucketName)
    /\ SponsorAccepted(sponsor)

ProductBucketNames == {TestStaticSite, MySite1, XnAbc}
ProductSponsors == {OpsTeam, AliceOther}

NotLaunched ==
    [ status       |-> "NOT_LAUNCHED",
      params       |-> [bucketName |-> << >>, sponsor |-> << >>],
      key          |-> Absent,
      bucket       |-> Absent,
      oac          |-> Absent,
      distribution |-> Absent,
      bucketPolicy |-> Absent,
      outputs      |-> { } ]

InitIds == [key |-> 1, oac |-> 1, distribution |-> 1]

Created(i) == { r \in ResourceKinds : stacks[i][r].exists }

Ready(i, r) ==
    /\ stacks[i].status = "CREATE_IN_PROGRESS"
    /\ ~ stacks[i][r].exists
    /\ References(r) \subseteq Created(i)

Launch(i, bucketName, sponsor) ==
    /\ stacks[i].status = "NOT_LAUNCHED"
    /\ stacks' = [stacks EXCEPT ![i] =
          [@ EXCEPT !.status = IF ParametersValid(bucketName, sponsor)
                               THEN "CREATE_IN_PROGRESS"
                               ELSE "REJECTED",
                    !.params = [bucketName |-> bucketName, sponsor |-> sponsor]]]
    /\ UNCHANGED <<param, verdict, nextId, pc, catalog, messaging>>

CreateKey(i) ==
    /\ Ready(i, "key")
    /\ stacks' = [stacks EXCEPT ![i].key =
                     KeyResource(nextId.key, stacks[i].params.sponsor)]
    /\ nextId' = [nextId EXCEPT !.key = @ + 1]
    /\ UNCHANGED <<param, verdict, pc, catalog, messaging>>

\* a bucket name is taken once some bucket has it
CreateBucket(i) ==
    /\ Ready(i, "bucket")
    /\ \A j \in Instances :
          stacks[j].bucket.exists =>
              stacks[j].bucket.bucket_name # stacks[i].params.bucketName
    /\ stacks' = [stacks EXCEPT ![i].bucket =
                     BucketResource(stacks[i].params.bucketName,
                                    Ref(stacks[i].key),
                                    stacks[i].params.sponsor)]
    /\ UNCHANGED <<param, verdict, nextId, pc, catalog, messaging>>

CreateOriginAccessControl(i) ==
    /\ Ready(i, "oac")
    /\ stacks' = [stacks EXCEPT ![i].oac =
                     OriginAccessControlResource(nextId.oac, Ref(stacks[i].bucket))]
    /\ nextId' = [nextId EXCEPT !.oac = @ + 1]
    /\ UNCHANGED <<param, verdict, pc, catalog, messaging>>

CreateDistribution(i) ==
    /\ Ready(i, "distribution")
    /\ stacks' = [stacks EXCEPT ![i].distribution =
                     DistributionResource(nextId.distribution,
                                          Ref(stacks[i].bucket),
                                          Ref(stacks[i].oac),
                                          stacks[i].params.sponsor)]
    /\ nextId' = [nextId EXCEPT !.distribution = @ + 1]
    /\ UNCHANGED <<param, verdict, pc, catalog, messaging>>

CreateBucketPolicy(i) ==
    /\ Ready(i, "bucketPolicy")
    /\ stacks' = [stacks EXCEPT ![i].bucketPolicy =
                     BucketPolicyResource(Ref(stacks[i].bucket),
                                          AccountId,
                                          Ref(stacks[i].distribution))]
    /\ UNCHANGED <<param, verdict, nextId, pc, catalog, messaging>>

\* every declared resource exists: the output is published
Complete(i) ==
    /\ stacks[i].status = "CREATE_IN_PROGRESS"
    /\ Created(i) = ResourceKinds
    /\ stacks' = [stacks EXCEPT ![i] =
          [@ EXCEPT !.status = "CREATE_COMPLETE",
                    !.outputs = {DistributionDomainNameOutput(
                                     stacks[i].distribution.domain_name)}]]
    /\ UNCHANGED <<param, verdict, nextId, pc, catalog, messaging>>

-----------------------------------------------------------------------------
(* CdkScS3StaticSite: the catalog wrapper.  The constructor runs its       *)
(* statements in order; pc is the number of statements already run.        *)

TagKeys == {"Sponsor", "Project", "Stage"}
TagValues == {"a", "b"}

\* values of the "tag_options" context entry: tag key -> allowed values
TagOptionContexts ==
    UNION { [K -> (SUBSET TagValues) \ {{}}] : K \in SUBSET TagKeys }

\* the statements with the two associations swapped
CatalogStatementsPortfolioFirst ==
    << "TagOptions", "Portfolio", "S3StaticSiteProduct", "CloudFormationProduct",
       "add_product", "associate_tag_options" >>

\* the statements of the constructor, in evaluation order
CatalogStatements ==
    << "TagOptions", "Portfolio", "S3StaticSiteProduct", "CloudFormationProduct",
       "associate_tag_options", "add_product" >>

EmptyCatalog ==
    [ context       |-> << >>,
      tagOptions    |-> { },
      portfolios    |-> { },
      productStacks |-> { },
      products      |-> { },
      tagOptionAssociations |-> { },    \* <<resource id, tag options id>>
      portfolioProducts     |-> { } ]   \* <<portfolio id, product id>>

AtCatalogStatement(name) ==
    /\ pc + 1 \in DOMAIN CatalogStatements
    /\ CatalogStatements[pc + 1] = name

\* sc.TagOptions(self, 'TagOptions', allowed_values_for_tags = <context>)
NewTagOptions ==
    /\ AtCatalogStatement("TagOptions")
    /\ catalog' = [catalog EXCEPT !.tagOptions = @ \cup
          { [id |-> "TagOptions", allowed_values_for_tags |-> catalog.context] }]
    /\ pc' = pc + 1
    /\ UNCHANGED <<param, verdict, stacks, nextId, messaging>>

\* sc.Portfolio(self, 'InfrastructurePortfolio', ..., tag_options = tag_options)
NewPortfolio ==
    /\ AtCatalogStatement("Portfolio")
    /\ catalog' = [catalog EXCEPT
          !.portfolios = @ \cup
              { [ id            |-> "InfrastructurePortfolio",
                  display_name  |-> "Infrastructure Portfolio",
                  provider_name |-> "Cloud Infra Team" ] },
          !.tagOptionAssociations = @ \cup
              { <<"InfrastructurePortfolio", to.id>> : to \in catalog.tagOptions }]
    /\ pc' = pc + 1
    /\ UNCHANGED <<param, verdict, stacks, nextId, messaging>>

\* S3StaticSiteProduct(self, "S3StaticSiteProduct"): the nested product stack
NewProductStack ==
    /\ AtCatalogStatement("S3StaticSiteProduct")
    /\ catalog' = [catalog EXCEPT !.productStacks = @ \cup
          { [ id         |-> "S3StaticSiteProduct",
              parameters |-> {"bucketNameParameter", "Sponsor"},
              resources  |-> ResourceKinds,
              outputs    |-> {"DistributionDomainName"} ] }]
    /\ pc' = pc + 1
    /\ UNCHANGED <<param, verdict, stacks, nextId, messaging>>

\* sc.CloudFormationProduct(..., product_versions = [one version])
NewCloudFormationProduct ==
    /\ AtCatalogStatement("CloudFormationProduct")
    /\ catalog' = [catalog EXCEPT !.products = @ \cup
          { [ id           |-> "SCProduct_S3_Static_Site",
              product_name |-> "S3_CloudFront",
              owner        |-> "kliu",
              product_versions |->
                  << [ product_version_name      |-> "v1.0",
                       cloud_formation_template  |-> ps.id ] >> ]
            : ps \in catalog.productStacks }]
    /\ pc' = pc + 1
    /\ UNCHANGED <<param, verdict, stacks, nextId, messaging>>

\* product_from_stack.associate_tag_options(tag_options)
AssociateTagOptions ==
    /\ AtCatalogStatement("associate_tag_options")
    /\ catalog' = [catalog EXCEPT !.tagOptionAssociations = @ \cup
          { <<pr.id, to.id>> : pr \in catalog.products, to \in catalog.tagOptions }]
    /\ pc' = pc + 1
    /\ UNCHANGED <<param, verdict, stacks, nextId, messaging>>

\* infra_portfolio.add_product(product_from_stack)
AddProduct ==
    /\ AtCatalogStatement("add_product")
    /\ catalog' = [catalog EXCEPT !.portfolioProducts = @ \cup
          { <<pf.id, pr.id>> : pf \in catalog.portfolios, pr \in catalog.products }]
    /\ pc' = pc + 1
    /\ UNCHANGED <<param, verdict, stacks, nextId, messaging>>

-----------------------------------------------------------------------------
(* CdkScLevel2WorkshopStack and app.py: a queue, a topic, one subscription; *)
(* after synthesis the topic delivers what is published to it.              *)

\* Duration.seconds(300)
VisibilityTimeoutSeconds == 300

\* number of messages published to the topic
MaxPublished == 4

Messages == {"m1", "m2", "m3"}

\* the statements without the subscription
MessagingStatementsWithoutSubscription ==
    << "Queue", "Topic", "synth" >>

\* the statements of the constructor, then app.synth()
MessagingStatements ==
    << "Queue", "Topic", "add_subscription", "synth" >>

EmptyMessaging ==
    [ queues        |-> { },
      topics        |-> { },
      subscriptions |-> { },
      synthesized   |-> FALSE,
      published     |-> << >>,       \* what was published to the topic, in order
      enqueued      |-> << >> ]      \* what the queue holds, in order

AtMessagingStatement(name) ==
    /\ pc + 1 \in DOMAIN MessagingStatements
    /\ MessagingStatements[pc + 1] = name

\* sqs.Queue(self, "CdkScLevel2WorkshopQueue", visibility_timeout = ...)
NewQueue ==
    /\ AtMessagingStatement("Queue")
    /\ messaging' = [messaging EXCEPT !.queues = @ \cup
          { [ id                 |-> "CdkScLevel2WorkshopQueue",
              visibility_timeout |-> VisibilityTimeoutSeconds ] }]
    /\ pc' = pc + 1
    /\ UNCHANGED <<param, verdict, stacks, nextId, catalog>>

\* sns.Topic(self, "CdkScLevel2WorkshopTopic")
NewTopic ==
    /\ AtMessagingStatement("Topic")
    /\ messaging' = [messaging EXCEPT !.topics = @ \cup
          { [id |-> "CdkScLevel2WorkshopTopic"] }]
    /\ pc' = pc + 1
    /\ UNCHANGED <<param, verdict, stacks, nextId, catalog>>

\* topic.add_subscription(subs.SqsSubscription(queue))
AddSubscription ==
    /\ AtMessagingStatement("add_subscription")
    /\ messaging' = [messaging EXCEPT !.subscriptions = @ \cup
          { [topic |-> t.id, protocol |-> "sqs", endpoint |-> q.id]
            : t \in messaging.topics, q \in messaging.queues }]
    /\ pc' = pc + 1
    /\ UNCHANGED <<param, verdict, stacks, nextId, catalog>>

\* app.synth()
Synth ==
    /\ AtMessagingStatement("synth")
    /\ messaging' = [messaging EXCEPT !.synthesized = TRUE]
    /\ pc' = pc + 1
    /\ UNCHANGED <<param, verdict, stacks, nextId, catalog>>

\* a message published to the topic goes to the endpoint of each subscription
Publish(m) ==
    /\ messaging.synthesized
    /\ Len(messaging.published) < MaxPublished
    /\ messaging' = [messaging EXCEPT
          !.published = Append(@, m),
          !.enqueued  = IF \E s \in messaging.subscriptions, t \in messaging.topics,
                              q \in messaging.queues :
                              s.topic = t.id /\ s.endpoint = q.id
                        THEN Append(@, m)
                        ELSE @]
    /\ UNCHANGED <<param, verdict, stacks, nextId, pc, catalog>>

-----------------------------------------------------------------------------
(* Specifications *)

Idle ==
    /\ stacks = [i \in Instances |-> NotLaunched]
    /\ nextId = InitIds
    /\ pc = 0
    /\ catalog = EmptyCatalog
    /\ messaging = EmptyMessaging

\* validation of one bucketNameParameter value
ValidateBucketName ==
    /\ verdict = "pending"
    /\ verdict' = IF BucketNameAccepted(param) THEN "accepted" ELSE "rejected"
    /\ UNCHANGED <<param, stacks, nextId, pc, catalog, messaging>>

InitBucketName ==
    /\ param \in BucketNameInputs
    /\ verdict = "pending"
    /\ Idle

SpecBucketName == InitBucketName /\ [][ValidateBucketName]_vars

\* validation of one Sponsor value
ValidateSponsor ==
    /\ verdict = "pending"
    /\ verdict' = IF SponsorAccepted(param) THEN "accepted" ELSE "rejected"
    /\ UNCHANGED <<param, stacks, nextId, pc, catalog, messaging>>

InitSponsor ==
    /\ param \in SponsorInputs
    /\ verdict = "pending"
    /\ Idle

SpecSponsor == InitSponsor /\ [][ValidateSponsor]_vars

\* instances of the product
InitProduct ==
    /\ param = << >>
    /\ verdict = "pending"
    /\ Idle

NextProduct ==
    \E i \in Instances :
        \/ \E b \in ProductBucketNames, s \in ProductSponsors : Launch(i, b, s)
        \/ CreateKey(i)
        \/ CreateBucket(i)
        \/ CreateOriginAccessControl(i)
        \/ CreateDistribution(i)
        \/ CreateBucketPolicy(i)
        \/ Complete(i)

SpecProduct == InitProduct /\ [][NextProduct]_vars

\* the catalog wrapper
InitCatalog ==
    /\ param = << >>
    /\ verdict = "pending"
    /\ stacks = [i \in Instances |-> NotLaunched]
    /\ nextId = InitIds
    /\ pc = 0
    /\ catalog \in { [EmptyCatalog EXCEPT !.context = c] : c \in TagOptionContexts }
    /\ messaging = EmptyMessaging

NextCatalog ==
    \/ NewTagOptions
    \/ NewPortfolio
    \/ NewProductStack
    \/ NewCloudFormationProduct
    \/ AssociateTagOptions
    \/ AddProduct

SpecCatalog == InitCatalog /\ [][NextCatalog]_vars

\* the messaging stack
InitMessaging ==
    /\ param = << >>
    /\ verdict = "pending"
    /\ Idle

NextMessaging ==
    \/ NewQueue
    \/ NewTopic
    \/ AddSubscription
    \/ Synth
    \/ \E m \in Messages : Publish(m)

SpecMessaging == InitMessaging /\ [][NextMessaging]_vars

Spec == SpecProduct

-----------------------------------------------------------------------------
(* Properties *)

HasPrefix(s, p) == Len(s) >= Len(p) /\ SubSeq(s, 1, Len(p)) = p
HasSuffix(s, p) == Len(s) >= Len(p) /\ SubSeq(s, Len(s) - Len(p) + 1, Len(s)) = p

\* the bucket-name rule in words: lowercase letters, digits and hyphens only,
\* 3 to 63 characters, first and last a letter or digit, no "xn--" prefix,
\* no "-s3alias" suffix
BucketNameRule(s) ==
    /\ Len(s) >= 3
    /\ Len(s) <= 63
    /\ \A i \in 1..Len(s) : s[i] \in LowerLetters \cup Digits \cup {"-"}
    /\ s[1] \in LowerLetters \cup Digits
    /\ s[Len(s)] \in LowerLetters \cup Digits
    /\ ~ HasPrefix(s, <<"x","n","-","-">>)
    /\ ~ HasSuffix(s, <<"-","s","3","a","l","i","a","s">>)

\* C1: a bucket name is accepted exactly when it obeys the bucket-name rule;
\* "my-site-1" is accepted; "xn--abc", "bucket-s3alias", "AB" and every value
\* longer than 63 characters are rejected.
C1_BucketNameAcceptedIffRule ==
    verdict # "pending" =>
        /\ (verdict = "accepted") <=> BucketNameRule(param)
        /\ param = MySite1 => verdict = "accepted"
        /\ param \in {XnAbc, BucketS3Alias, UpperAB} => verdict = "rejected"
        /\ Len(param) > 63 => verdict = "rejected"

\* a name of the greatest accepted length has been accepted
C1_Witness == verdict = "accepted" /\ Len(param) = 63

\* the sponsor rule in words: one or two non-empty runs of ASCII letters,
\* joined by a single dot when there are two, then "@modernatx.com"
SponsorRule(s) ==
    LET n      == Len(s) - 14
        local  == SubSeq(s, 1, n)
        dots   == { i \in 1..n : local[i] = "." }
    IN  /\ n >= 1
        /\ SubSeq(s, n + 1, Len(s)) =
               <<"@","m","o","d","e","r","n","a","t","x",".","c","o","m">>
        /\ \A i \in (1..n) \ dots : local[i] \in LowerLetters \cup UpperLetters
        /\ Cardinality(dots) <= 1
        /\ \A d \in dots : 1 < d /\ d < n

\* C2: a sponsor is accepted exactly when it obeys the sponsor rule;
\* "alice.smith@modernatx.com" and "ops.team@modernatx.com" are accepted and
\* "alice@other.com" is rejected.
C2_SponsorAcceptedIffRule ==
    verdict # "pending" =>
        /\ (verdict = "accepted") <=> SponsorRule(param)
        /\ param \in {AliceSmith, OpsTeam} => verdict = "accepted"
        /\ param = AliceOther => verdict = "rejected"

\* a sponsor with a two-part local name has been accepted
C2_Witness == verdict = "accepted" /\ param = AliceSmith

\* C3: an instance launched with a bucket name or a sponsor that fails its
\* pattern is rejected and has no resource and no output.
C3_InvalidParameterNoResource ==
    \A i \in Instances :
        ( /\ stacks[i].status # "NOT_LAUNCHED"
          /\ ~ ( /\ BucketNameAccepted(stacks[i].params.bucketName)
                 /\ SponsorAccepted(stacks[i].params.sponsor) ) )
        => /\ stacks[i].status = "REJECTED"
           /\ \A r \in ResourceKinds : ~ stacks[i][r].exists
           /\ stacks[i].outputs = { }

\* one instance was rejected for its sponsor alone and one for its bucket
\* name alone
C3_Witness ==
    \E i, j \in Instances :
        /\ stacks[i].status = "REJECTED"
        /\ BucketNameAccepted(stacks[i].params.bucketName)
        /\ ~ SponsorAccepted(stacks[i].params.sponsor)
        /\ stacks[j].status = "REJECTED"
        /\ ~ BucketNameAccepted(stacks[j].params.bucketName)
        /\ SponsorAccepted(stacks[j].params.sponsor)

\* whether the bucket of instance i lets the principal read an object when the
\* request comes on behalf of the resource sourceArn
ReadAuthorized(i, principal, sourceArn) ==
    /\ stacks[i].bucket.exists
    /\ \/ stacks[i].bucket.public_read_access
       \/ /\ stacks[i].bucketPolicy.exists
          /\ \E st \in stacks[i].bucketPolicy.statements :
                /\ st.effect = "Allow"
                /\ "s3:GetObject" \in st.actions
                /\ principal \in st.principals \/ "*" \in st.principals
                /\ \A c \in st.conditions :
                      /\ c.test = "StringEquals"
                      /\ c.key = "aws:SourceArn"
                      /\ c.value = sourceArn

\* the ARN of the distribution of instance i
OwnDistributionArn(i) ==
    <<"arn:aws:cloudfront::", AccountId, ":distribution/", stacks[i].distribution.id>>

\* C4: the aws:SourceArn condition of an instance's bucket policy statement
\* is the ARN of that instance's own distribution, and the distribution of
\* another instance is not authorized to read the bucket.
C4_SourceArnIsOwnDistribution ==
    \A i \in Instances :
        stacks[i].bucketPolicy.exists =>
            /\ stacks[i].distribution.exists
            /\ \A st \in stacks[i].bucketPolicy.statements :
                  /\ \E c \in st.conditions : c.key = "aws:SourceArn"
                  /\ \A c \in st.conditions :
                        c.key = "aws:SourceArn" => c.value = OwnDistributionArn(i)
            /\ \A j \in Instances \ {i} :
                  stacks[j].distribution.exists =>
                      ~ ReadAuthorized(i, CloudFrontPrincipal, OwnDistributionArn(j))

\* two instances have their bucket policy, each for its own distribution
C4_Witness ==
    \E i, j \in Instances :
        /\ i # j
        /\ stacks[i].bucketPolicy.exists
        /\ stacks[j].bucketPolicy.exists
        /\ stacks[i].distribution.id # stacks[j].distribution.id

Principals == {CloudFrontPrincipal, "*", "lambda.amazonaws.com"}

SourceArns ==
    { <<"arn:aws:cloudfront::", AccountId, ":distribution/", d>> :
        d \in 1..(MaxInstances + 1) } \cup { <<"none">> }

\* C5: the bucket is never publicly readable; only the delivery service
\* principal acting for this instance's distribution may read its objects,
\* and the distribution reaches the bucket through the instance's origin
\* access control.
C5_BucketPrivateReadOnlyViaDistribution ==
    \A i \in Instances :
        /\ stacks[i].bucket.exists => stacks[i].bucket.public_read_access = FALSE
        /\ \A p \in Principals, a \in SourceArns :
              ReadAuthorized(i, p, a) =>
                  /\ p = CloudFrontPrincipal
                  /\ stacks[i].distribution.exists
                  /\ a = OwnDistributionArn(i)
        /\ stacks[i].distribution.exists =>
              /\ stacks[i].oac.exists
              /\ \A o \in stacks[i].distribution.origins :
                    o.origin_access_control_id = stacks[i].oac.id

\* an instance's bucket is readable through its own distribution while the
\* bucket of another instance still has no policy
C5_Witness ==
    \E i, j \in Instances :
        /\ stacks[i].distribution.exists
        /\ ReadAuthorized(i, CloudFrontPrincipal, OwnDistributionArn(i))
        /\ stacks[j].bucket.exists
        /\ ~ stacks[j].bucketPolicy.exists

\* C6: the bucket, the key and the distribution of an instance each carry
\* one Sponsor tag, whose value is the instance's Sponsor parameter.
C6_SponsorTagOnGovernedResources ==
    \A i \in Instances :
        \A r \in {"bucket", "key", "distribution"} :
            stacks[i][r].exists =>
                { t.value : t \in { u \in stacks[i][r].tags : u.key = "Sponsor" } }
                    = { stacks[i].params.sponsor }

\* an instance has its bucket, key and distribution
C6_Witness ==
    \E i \in Instances :
        /\ stacks[i].bucket.exists
        /\ stacks[i].key.exists
        /\ stacks[i].distribution.exists
        /\ stacks[i].params.sponsor = OpsTeam

Regions == {"US", "JP", "CA", "IN", "DE", "CN", "GB"}

\* whether a distribution serves a viewer of the region
Serves(d, region) ==
    CASE d.geo_restriction.restriction_type = "whitelist" ->
             region \in d.geo_restriction.locations
      [] d.geo_restriction.restriction_type = "blacklist" ->
             region \notin d.geo_restriction.locations
      [] OTHER -> TRUE

\* C7: the geo-restriction of every distribution is an allow-list of exactly
\* US, JP, CA and IN, whatever has happened since it was created, and a
\* viewer of any other region is not served.
C7_GeoRestrictionAllowList ==
    \A i \in Instances :
        stacks[i].distribution.exists =>
            /\ stacks[i].distribution.geo_restriction.restriction_type = "whitelist"
            /\ stacks[i].distribution.geo_restriction.locations = {"US", "JP", "CA", "IN"}
            /\ \A g \in Regions :
                  Serves(stacks[i].distribution, g) <=> g \in {"US", "JP", "CA", "IN"}

\* an instance is complete: every operation on it has acted since its
\* distribution was created
C7_Witness ==
    \E i \in Instances :
        /\ stacks[i].status = "CREATE_COMPLETE"
        /\ Serves(stacks[i].distribution, "JP")

KeyPolicyInPlace(i) ==
    /\ stacks[i].key.exists
    /\ \E st \in stacks[i].key.policy : st.sid = "AllowCloudFrontServicePrincipalSSE-KMS"

\* C10 as stated: the origin access control, the distribution, the bucket
\* policy and the key policy form one chain, none in place before its
\* predecessor.
C10_KeyPolicyAfterBucketPolicy ==
    \A i \in Instances :
        /\ stacks[i].distribution.exists => stacks[i].oac.exists
        /\ stacks[i].bucketPolicy.exists => stacks[i].distribution.exists
        /\ KeyPolicyInPlace(i) => stacks[i].bucketPolicy.exists

\* C10 as amended: the distribution needs the origin access control whose
\* identifier it names, the bucket policy needs the distribution whose
\* identifier its condition names, and the key policy statement names no
\* identifier and no condition: it is in place with the key alone.
C10_ChainEndsAtBucketPolicy ==
    \A i \in Instances :
        /\ stacks[i].distribution.exists =>
              /\ stacks[i].oac.exists
              /\ \A o \in stacks[i].distribution.origins :
                    o.origin_access_control_id = stacks[i].oac.id
        /\ stacks[i].bucketPolicy.exists =>
              /\ stacks[i].distribution.exists
              /\ \A st \in stacks[i].bucketPolicy.statements :
                    \A c \in st.conditions : c.value[4] = stacks[i].distribution.id
        /\ stacks[i].key.exists =>
              /\ KeyPolicyInPlace(i)
              /\ \A st \in stacks[i].key.policy :
                    st.conditions = { } /\ st.resources = {"*"}

\* one instance has reached its bucket policy while another has its key
\* policy and no origin access control yet
C10_Witness ==
    \E i, j \in Instances :
        /\ stacks[i].bucketPolicy.exists
        /\ KeyPolicyInPlace(j)
        /\ ~ stacks[j].oac.exists

CatalogDone == pc = Len(CatalogStatements)

\* C8: there is never more than one portfolio, tag-options set or product;
\* a product in the portfolio always has its tag-option association; and
\* once the constructor has run there is exactly one of each, the product
\* has the single version "v1.0" whose template is the nested product
\* stack, and both associations hold.
C8_CatalogWrapper ==
    /\ Cardinality(catalog.portfolios) <= 1
    /\ Cardinality(catalog.tagOptions) <= 1
    /\ Cardinality(catalog.products) <= 1
    /\ \A pp \in catalog.portfolioProducts :
          \E to \in catalog.tagOptions : <<pp[2], to.id>> \in catalog.tagOptionAssociations
    /\ CatalogDone =>
          /\ Cardinality(catalog.portfolios) = 1
          /\ Cardinality(catalog.tagOptions) = 1
          /\ Cardinality(catalog.products) = 1
          /\ Cardinality(catalog.productStacks) = 1
          /\ \A pr \in catalog.products :
                /\ Len(pr.product_versions) = 1
                /\ pr.product_versions[1].product_version_name = "v1.0"
                /\ \E ps \in catalog.productStacks :
                      /\ ps.id = "S3StaticSiteProduct"
                      /\ pr.product_versions[1].cloud_formation_template = ps.id
                /\ \A to \in catalog.tagOptions :
                      /\ <<pr.id, to.id>> \in catalog.tagOptionAssociations
                      /\ to.allowed_values_for_tags = catalog.context
                /\ \A pf \in catalog.portfolios :
                      <<pf.id, pr.id>> \in catalog.portfolioProducts

\* the constructor has run with a context of two tag keys
C8_Witness ==
    /\ CatalogDone
    /\ catalog.portfolioProducts # { }
    /\ Cardinality(DOMAIN catalog.context) = 2

\* C9: once the messaging stack is synthesized there is exactly one queue,
\* with a visibility timeout of 300 seconds, exactly one topic and exactly
\* one subscription, from that topic to that queue, and the queue holds
\* every message published to the topic.
C9_MessagingStack ==
    messaging.synthesized =>
        /\ Cardinality(messaging.queues) = 1
        /\ Cardinality(messaging.topics) = 1
        /\ \A q \in messaging.queues : q.visibility_timeout = 300
        /\ \A q \in messaging.queues, t \in messaging.topics :
              messaging.subscriptions =
                  { [topic |-> t.id, protocol |-> "sqs", endpoint |-> q.id] }
        /\ messaging.enqueued = messaging.published

\* two messages have been published and both are in the queue
C9_Witness ==
    /\ messaging.synthesized
    /\ Len(messaging.published) = 2
    /\ Len(messaging.enqueued) = 2

=============================================================================
